---- MODULE Spec2Model ----
(***************************************************************************)
(* Construction of the UniTorus and Cake topologies of booksim2            *)
(* (src/networks/unitorus.cpp, src/networks/cake.cpp) and of the per-router *)
(* metadata they record (src/routers/router.hpp).                          *)
(*                                                                         *)
(* A behaviour is one run of a topology constructor: the configuration is  *)
(* read key by key, the sizes are computed, the channels are allocated and *)
(* the routers are created and wired, one loop of _BuildNet per step.      *)
(* Strings are sequences of one-character strings; C++ indices are         *)
(* 0-based, so element i of a vector v is v[i + 1] here.                   *)
(***************************************************************************)
EXTENDS Integers, Sequences, FiniteSets, TLC

\* Bounds of the explored configurations.
MaxX == 3         \* largest Cake extent in x
MaxY == 2         \* largest Cake extent in y
MaxLayers == 3    \* largest number of Cake layers
MaxElev == 2      \* most (x,y) pairs written in elevator_coords
MaxD == 2         \* most UniTorus dimensions
MaxK == 3         \* largest extent of one UniTorus dimension
MaxNodes == 18    \* largest network built
MaxCalls == 2     \* most calls of RegisterRoutingFunctions

VARIABLES
  topology,            \* which constructor runs: "cake" or "unitorus"
  pc,                  \* position in the constructor
  cfg,                 \* the configuration values read so far
  _x, _y, _layers,     \* Cake sizes
  _elevators,          \* Cake: vector of (x,y) pairs
  _elevator_index,     \* Cake: map key -> index into _elevators
  _elevator_map,       \* Cake: _elevator_map[y][x] = preferred elevator
  _inplane_channels, _vertical_channels,
  _dim_sizes, _dim_bandwidth, _dim_latency, _dim_penalty,   \* UniTorus
  _size, _nodes, _channels,                                  \* Network
  _routers,            \* Network: router objects, indexed 0 .. _size-1
  _chan, _chan_cred,   \* latency of each network channel / credit channel
  _inject, _inject_cred, _eject, _eject_cred,   \* same, per node
  gK, gN, gDimSizes,   \* legacy global dimension hints
  capacity,            \* value returned by UniTorus::Capacity(), -1 before
  cerr,                \* the error message written before exit(-1), "" if none
  gRoutingFunctionMap, \* process-wide registry: routing-function name -> function
  registerCalls        \* calls of the topology's RegisterRoutingFunctions so far

cakeVars == <<_x, _y, _layers, _elevators, _elevator_index, _elevator_map,
              _inplane_channels, _vertical_channels>>
uniVars == <<_dim_sizes, _dim_bandwidth, _dim_latency, _dim_penalty>>
sizeVars == <<_size, _nodes, _channels, gK, gN, gDimSizes>>
netVars == <<_routers, _chan, _chan_cred, _inject, _inject_cred, _eject,
             _eject_cred>>
regVars == <<gRoutingFunctionMap, registerCalls>>
vars == <<topology, pc, cfg, cakeVars, uniVars, sizeVars, netVars, capacity, cerr,
          regVars>>

----------------------------------------------------------------------------
\* Strings and atoi

Digits == <<"0", "1", "2", "3", "4", "5", "6", "7", "8", "9">>

IsDigit(c) == \E i \in 1..Len(Digits) : Digits[i] = c

DigitVal(c) == (CHOOSE i \in 1..Len(Digits) : Digits[i] = c) - 1

IsSpace(c) == c \in {" ", "\t", "\n"}

RECURSIVE AtoiDigits(_, _, _)
AtoiDigits(s, i, acc) ==
  IF i > Len(s) \/ ~IsDigit(s[i]) THEN acc
  ELSE AtoiDigits(s, i + 1, acc * 10 + DigitVal(s[i]))

RECURSIVE SkipSpace(_, _)
SkipSpace(s, i) ==
  IF i <= Len(s) /\ IsSpace(s[i]) THEN SkipSpace(s, i + 1) ELSE i

\* atoi: leading white space, an optional sign, then the longest run of
\* digits; 0 when there is none.
Atoi(s) ==
  LET i == SkipSpace(s, 1)
  IN IF i <= Len(s) /\ s[i] = "-" THEN 0 - AtoiDigits(s, i + 1, 0)
     ELSE IF i <= Len(s) /\ s[i] = "+" THEN AtoiDigits(s, i + 1, 0)
     ELSE AtoiDigits(s, i, 0)

\* string::find(c, start), 0-based start; 0 stands for npos, otherwise the
\* 1-based position.
RECURSIVE Find(_, _, _)
Find(s, c, i) ==
  IF i > Len(s) THEN 0
  ELSE IF s[i] = c THEN i
  ELSE Find(s, c, i + 1)

\* The end of the token that starts at i: the first white space after it,
\* or one past the end of the string.
RECURSIVE TokenEnd(_, _)
TokenEnd(s, i) ==
  IF i > Len(s) \/ IsSpace(s[i]) THEN i ELSE TokenEnd(s, i + 1)

\* The tokens `ss >> tok` yields: maximal runs of non-space characters.
RECURSIVE TokensFrom(_, _, _)
TokenAt(s, b, e, toks) == TokensFrom(s, e, Append(toks, SubSeq(s, b, e - 1)))

SkipToToken(s, b, toks) == IF b > Len(s) THEN toks ELSE TokenAt(s, b, TokenEnd(s, b), toks)

TokensFrom(s, i, toks) == SkipToToken(s, SkipSpace(s, i), toks)

Tokens(s) == TokensFrom(s, 1, <<>>)

\* for(char &c: s) if c is one of `seps` then c = ' '
Blank(s, seps) == [i \in 1..Len(s) |-> IF s[i] \in seps THEN " " ELSE s[i]]

----------------------------------------------------------------------------
\* Coordinate algebra of Cake

\* Cake::_Key packs (x,y) into one 64-bit integer, (x << 32) | y, which is
\* injective on the non-negative 32-bit pairs it is called with; the key is
\* kept as the pair itself.
Key(x, y) == <<x, y>>

NodeId(x, y, z) == z * (_x * _y) + y * _x + x

\* IdToXYZ with the row taken by dividing by _y instead of _x.
IdToXYZ_DivideByY(id) ==
  LET plane == _x * _y
      rem == id % plane
  IN [x |-> rem % _x, y |-> rem \div _y, z |-> id \div plane]

IdToXYZ(id) ==
  LET plane == _x * _y
      rem == id % plane
  IN [x |-> rem % _x, y |-> rem \div _x, z |-> id \div plane]

InplaneChannel(node, dim) == node * 2 + dim

\* UpChannel with the elevator index not scaled by the number of layers.
UpChannel_NoLayerStride(elev_idx, layer) ==
  _inplane_channels + (elev_idx + layer) * 2 + 0

UpChannel(elev_idx, layer) == _inplane_channels + (elev_idx * _layers + layer) * 2 + 0

\* DownChannel without the offset that tells it from the up channel.
DownChannel_NoOffset(elev_idx, layer) ==
  _inplane_channels + (elev_idx * _layers + layer) * 2

DownChannel(elev_idx, layer) == _inplane_channels + (elev_idx * _layers + layer) * 2 + 1

----------------------------------------------------------------------------
\* Cake::_ParseElevators: elevator_coords

\* ElevToken with the upper limits of the range test off by one.
ElevToken_RangeOffByOne(st, t) ==
  LET comma == Find(t, ",", 1)
      ex == Atoi(SubSeq(t, 1, comma - 1))
      ey == Atoi(SubSeq(t, comma + 1, Len(t)))
      key == Key(ex, ey)
  IN IF comma = 0 THEN st
     ELSE IF ex < 0 \/ ex > _x \/ ey < 0 \/ ey > _y THEN [st EXCEPT !.err = TRUE]
     ELSE IF key \in DOMAIN st.index THEN st
     ELSE [st EXCEPT !.elevators = Append(@, <<ex, ey>>),
                     !.index = (key :> Len(st.elevators)) @@ @]

\* ElevToken without the test that collapses a repeated pair.
ElevToken_KeepDuplicates(st, t) ==
  LET comma == Find(t, ",", 1)
      ex == Atoi(SubSeq(t, 1, comma - 1))
      ey == Atoi(SubSeq(t, comma + 1, Len(t)))
      key == Key(ex, ey)
  IN IF comma = 0 THEN st
     ELSE IF ex < 0 \/ ex >= _x \/ ey < 0 \/ ey >= _y THEN [st EXCEPT !.err = TRUE]
     ELSE [st EXCEPT !.elevators = Append(@, <<ex, ey>>),
                     !.index = (key :> Len(st.elevators)) @@ @]

\* One iteration of the loop over the tokens. st = [err, elevators, index]:
\* err is set where the code prints "out of range" and exits.
ElevToken(st, t) ==
  LET comma == Find(t, ",", 1)
      ex == Atoi(SubSeq(t, 1, comma - 1))
      ey == Atoi(SubSeq(t, comma + 1, Len(t)))
      key == Key(ex, ey)
  IN IF comma = 0 THEN st
     ELSE IF ex < 0 \/ ex >= _x \/ ey < 0 \/ ey >= _y THEN [st EXCEPT !.err = TRUE]
     ELSE IF key \notin DOMAIN st.index
          THEN [st EXCEPT !.elevators = Append(@, <<ex, ey>>),
                          !.index = @ @@ (key :> Len(st.elevators))]
          ELSE st

RECURSIVE ElevLoop(_, _, _)
ElevLoop(toks, i, st) ==
  IF st.err \/ i > Len(toks) THEN st
  ELSE ElevLoop(toks, i + 1, ElevToken(st, toks[i]))

\* The elevator list and index after the first half of _ParseElevators.
ParseElevatorCoords(elev_str) ==
  LET cleared == [err |-> FALSE, elevators |-> <<>>, index |-> <<>>]
  IN IF elev_str = <<>> THEN cleared
     ELSE ElevLoop(Tokens(Blank(elev_str, {"{", "}"})), 1, cleared)

----------------------------------------------------------------------------
\* Cake::_ParseElevators: elevator_mapping_coords

\* The inner while(true) loop: the comma-separated parts of one token, the
\* empty ones skipped, each converted by atoi. start is 1-based.
RECURSIVE SplitParts(_, _, _)
SplitParts(tok, start, nums) ==
  LET comma == Find(tok, ",", start)
      part == IF comma = 0 THEN SubSeq(tok, start, Len(tok))
              ELSE SubSeq(tok, start, comma - 1)
      nums2 == IF part # <<>> THEN Append(nums, Atoi(part)) ELSE nums
  IN IF comma = 0 THEN nums2 ELSE SplitParts(tok, comma + 1, nums2)

\* One iteration of while(ss >> tok).
MapToken(nums, tok0) ==
  IF tok0 = <<",">> THEN nums
  ELSE LET tok == IF tok0 # <<>> /\ tok0[Len(tok0)] = ","
                  THEN SubSeq(tok0, 1, Len(tok0) - 1) ELSE tok0
       IN IF tok = <<>> \/ tok = <<",">> THEN nums
          ELSE SplitParts(tok, 1, nums)

RECURSIVE MapNumsLoop(_, _, _)
MapNumsLoop(toks, i, nums) ==
  IF i > Len(toks) THEN nums
  ELSE MapNumsLoop(toks, i + 1, MapToken(nums, toks[i]))

\* The flat integer stream extracted from the mapping string.
MapNums(map_str) ==
  MapNumsLoop(Tokens(Blank(map_str, {"{", "}", "[", "]"})), 1, <<>>)

\* MapCellOutOfRange with the upper limits off by one.
MapCellOutOfRange_OffByOne(nums, k) ==
  nums[2 * k + 1] < 0 \/ nums[2 * k + 1] > _x \/ nums[2 * k + 2] < 0 \/ nums[2 * k + 2] > _y

MapCellOutOfRange(nums, k) ==
  nums[2 * k + 1] < 0 \/ nums[2 * k + 1] >= _x \/ nums[2 * k + 2] < 0 \/ nums[2 * k + 2] >= _y

\* The first cell, in row-major order, whose pair is out of range; _x * _y
\* when there is none.
RECURSIVE FirstBadCell(_, _)
FirstBadCell(nums, k) ==
  IF k >= _x * _y \/ MapCellOutOfRange(nums, k) THEN k ELSE FirstBadCell(nums, k + 1)

\* FillMapping reading the stream column by column.
FillMapping_ColumnMajor(nums, stop) ==
  [err |-> stop < _x * _y,
   map |-> [ry \in 0..(_y - 1) |-> [rx \in 0..(_x - 1) |->
              IF ry * _x + rx < stop
              THEN <<nums[2 * (rx * _y + ry) + 1], nums[2 * (rx * _y + ry) + 2]>>
              ELSE <<0, 0>>]]]

\* The copy loop, which stops (and exits) at cell `stop`: cell k = ry * _x + rx
\* takes the k-th pair of the stream.
FillMapping(nums, stop) ==
  [err |-> stop < _x * _y,
   map |-> [ry \in 0..(_y - 1) |-> [rx \in 0..(_x - 1) |->
              IF ry * _x + rx < stop
              THEN <<nums[2 * (ry * _x + rx) + 1], nums[2 * (ry * _x + rx) + 2]>>
              ELSE <<0, 0>>]]]

\* The stream is checked for its length, then copied.
CheckAndFillMapping(nums) ==
  IF Len(nums) # _x * _y * 2
  THEN [err |-> TRUE, map |-> [ry \in 0..(_y - 1) |-> [rx \in 0..(_x - 1) |-> <<0, 0>>]]]
  ELSE FillMapping(nums, FirstBadCell(nums, 0))

\* The message written when the mapping string is rejected.
MappingMessage(map_str) ==
  IF Len(MapNums(map_str)) # _x * _y * 2
  THEN "elevator_mapping_coords expects 2*X*Y integers (x,y pairs)"
  ELSE "elevator_mapping_coords out of range"

\* The table after the second half of _ParseElevators, [err, map]: the table
\* is first filled with (0,0); without a mapping string it is the identity.
ParseElevatorMapping(map_str) ==
  IF map_str = <<>>
  THEN [err |-> FALSE,
        map |-> [ry \in 0..(_y - 1) |-> [rx \in 0..(_x - 1) |-> <<rx, ry>>]]]
  ELSE CheckAndFillMapping(MapNums(map_str))

----------------------------------------------------------------------------
\* Configuration values the constructors are run with

RECURSIVE Itoa(_)
Itoa(n) ==
  IF n < 0 THEN <<"-">> \o Itoa(0 - n)
  ELSE IF n < 10 THEN <<Digits[n + 1]>>
  ELSE Itoa(n \div 10) \o <<Digits[(n % 10) + 1]>>

\* "{a,b}"
PairStr(p) == <<"{">> \o Itoa(p[1]) \o <<",">> \o Itoa(p[2]) \o <<"}">>

RECURSIVE JoinPairs(_, _, _)
JoinPairs(pairs, i, sep) ==
  IF i > Len(pairs) THEN <<>>
  ELSE (IF i > 1 THEN <<sep>> ELSE <<>>) \o PairStr(pairs[i]) \o JoinPairs(pairs, i + 1, sep)

\* "{{a,b},{c,d}}" as the header comment of cake.cpp writes it (sep a comma),
\* or the pairs separated by white space; no pair: the key is left unset, or
\* an empty list is given.
ElevatorCoordsStr(pairs, sep) ==
  IF pairs = <<>> THEN (IF sep = "," THEN <<>> ELSE <<"{", "}">>)
  ELSE <<"{">> \o JoinPairs(pairs, 1, sep) \o <<"}">>

\* The (x,y) pairs written in elevator_coords: two corners of the largest
\* grid and (1,0).
ElevatorPairs == {<<0, 0>>, <<1, 0>>, <<MaxX - 1, MaxY - 1>>}

ElevatorCoordsValues ==
  {ElevatorCoordsStr(pairs, sep) :
     pairs \in UNION {[1..n -> ElevatorPairs] : n \in 0..MaxElev},
     sep \in {",", " "}}

\* The mapping matrix as the comment in _ParseElevators writes it: rows of
\* _x pairs, "{{{a,b},{c,d}},{{e,f},{g,h}}}".
RECURSIVE MapRows(_, _, _)
MapRows(pairs, i, X) ==
  IF i > Len(pairs) THEN <<>>
  ELSE (IF i > 1 THEN <<",">> ELSE <<>>)
       \o <<"{">> \o JoinPairs(SubSeq(pairs, i, IF i + X - 1 < Len(pairs) THEN i + X - 1 ELSE Len(pairs)), 1, ",") \o <<"}">>
       \o MapRows(pairs, i + X, X)

ElevatorMappingStr(pairs, X) == <<"{">> \o MapRows(pairs, 1, X) \o <<"}">>

\* Mapping matrices written for an X x Y grid: every cell to one target, the
\* identity written out, the point reflection, every cell to the diagonal
\* cell of its row, the identity one pair short, and a matrix one pair short
\* that sends every cell to the far corner of the largest grid; or the key
\* left unset.
ElevatorMappingValues(X, Y) ==
  LET n == X * Y
      const == {[k \in 1..n |-> t] : t \in ElevatorPairs}
      ident == [k \in 1..n |-> <<(k - 1) % X, (k - 1) \div X>>]
      mirror == [k \in 1..n |-> <<X - 1 - ((k - 1) % X), Y - 1 - ((k - 1) \div X)>>]
      diag == [k \in 1..n |-> <<((k - 1) \div X) % X, (k - 1) \div X>>]
      short == SubSeq(ident, 1, n - 1)
      shortfar == [k \in 1..(n - 1) |-> <<MaxX - 1, MaxY - 1>>]
  IN {<<>>} \cup {ElevatorMappingStr(m, X) : m \in const \cup {ident, mirror, diag, short, shortfar}}

\* The string _ParseElevators works on: the preferred key, or the legacy key
\* when the preferred one is empty.
ElevStr(c) == IF c.elevator_coords = <<>> THEN c.elevatorcoords ELSE c.elevator_coords

MapStr(c) ==
  IF c.elevator_mapping_coords = <<>> THEN c.elevatormapping
  ELSE c.elevator_mapping_coords

\* The two elevator keys: the preferred key alone (one of the values above or
\* the diagonal "{{0,0},{1,1}}"), or the legacy key naming (1,0) beside a
\* preferred key that is unset or names (0,0).
ElevatorCoordsConfigs ==
  {[elevator_coords |-> v, elevatorcoords |-> <<>>] :
     v \in ElevatorCoordsValues \cup {ElevatorCoordsStr(<<<<0, 0>>, <<1, 1>>>>, ",")}}
  \cup {[elevator_coords |-> v, elevatorcoords |-> ElevatorCoordsStr(<<<<1, 0>>>>, ",")] :
          v \in {<<>>, ElevatorCoordsStr(<<<<0, 0>>>>, ",")}}

\* The two mapping keys: the preferred key alone, or the legacy key holding
\* the point reflection beside a preferred key that is unset or holds the
\* matrix sending every cell to (0,0).
ElevatorMappingConfigs(X, Y) ==
  LET n == X * Y
      mirror == [k \in 1..n |-> <<X - 1 - ((k - 1) % X), Y - 1 - ((k - 1) \div X)>>]
      origin == [k \in 1..n |-> <<0, 0>>]
  IN {[elevator_mapping_coords |-> v, elevatormapping |-> <<>>] :
        v \in ElevatorMappingValues(X, Y)}
     \cup {[elevator_mapping_coords |-> v, elevatormapping |-> ElevatorMappingStr(mirror, X)] :
             v \in {<<>>, ElevatorMappingStr(origin, X)}}

----------------------------------------------------------------------------
\* dim_sizes

\* The tokens between commas, empty ones included (start is 1-based).
RECURSIVE SplitComma(_, _)
SplitComma(s, start) ==
  LET q == Find(s, ",", start)
  IN IF q = 0 THEN <<SubSeq(s, start, Len(s))>>
     ELSE <<SubSeq(s, start, q - 1)>> \o SplitComma(s, q + 1)

\* The token without its leading and trailing blanks and tabs.
RECURSIVE Trim(_)
Trim(t) ==
  IF t = <<>> THEN t
  ELSE IF t[1] \in {" ", "\t"} THEN Trim(Tail(t))
  ELSE IF t[Len(t)] \in {" ", "\t"} THEN Trim(SubSeq(t, 1, Len(t) - 1))
  ELSE t

\* One leading '{' and one trailing '}' removed.
StripBraces(str) ==
  LET s1 == IF str # <<>> /\ str[1] = "{" THEN Tail(str) ELSE str
  IN IF s1 # <<>> /\ s1[Len(s1)] = "}" THEN SubSeq(s1, 1, Len(s1) - 1) ELSE s1

\* The trimmed, non-empty tokens of a brace list.
TrimmedTokens(str) ==
  LET raw == SplitComma(StripBraces(str), 1)
  IN SelectSeq([i \in 1..Len(raw) |-> Trim(raw[i])], LAMBDA t : t # <<>>)

RECURSIVE JoinInts(_, _)
JoinInts(ints, i) ==
  IF i > Len(ints) THEN <<>>
  ELSE (IF i > 1 THEN <<",">> ELSE <<>>) \o Itoa(ints[i]) \o JoinInts(ints, i + 1)

\* "{v1,v2,...}"
IntListStr(ints) == <<"{">> \o JoinInts(ints, 1) \o <<"}">>

RECURSIVE Product(_, _)
Product(sizes, i) == IF i > Len(sizes) THEN 1 ELSE sizes[i] * Product(sizes, i + 1)

\* The networks built have at most MaxNodes nodes; a list with a size that
\* is not positive is rejected before anything is built.
Buildable(ds) ==
  (\E i \in 1..Len(ds) : ds[i] <= 0) \/ Product(ds, 1) <= MaxNodes

\* dim_sizes of a Cake: unset, one to three integers, or the sizes of the
\* single-node Cake followed by a fourth entry.
CakeDimSizesValues ==
  {<<>>} \cup
  {IntListStr(ds) : ds \in {d \in {<<a>> : a \in (-1)..MaxX}
                                   \cup (((-1)..MaxX) \X ((-1)..MaxY))
                                   \cup (((-1)..MaxX) \X ((-1)..MaxY) \X ((-1)..MaxLayers))
                                   \cup {<<1, 1, 1, w>> : w \in {-1, 0, 2}} :
                              Buildable(d)}}

----------------------------------------------------------------------------
\* Router (src/routers/router.hpp)

NewRouter(id, inputs, outputs) ==
  [id |-> id, inputs |-> inputs, outputs |-> outputs,
   input_channels |-> <<>>, output_channels |-> <<>>,
   cake_x_size |-> 0, cake_y_size |-> 0, cake_layers |-> 0,
   cake_x |-> -1, cake_y |-> -1, cake_z |-> -1,
   cake_elvx |-> -1, cake_elvy |-> -1,
   cake_port_xp |-> -1, cake_port_yp |-> -1, cake_port_zup |-> -1,
   cake_port_zdn |-> -1, cake_port_eject |-> -1]

AddInputChannel(r, channel) == [r EXCEPT !.input_channels = Append(@, channel)]

AddOutputChannel(r, channel) == [r EXCEPT !.output_channels = Append(@, channel)]

OutputIndexCount(r) == Len(r.output_channels)

GetInputChannel(r, input) == r.input_channels[input + 1]

GetOutputChannel(r, output) == r.output_channels[output + 1]

SetCakeSizes(r, xs, ys, ls) ==
  [r EXCEPT !.cake_x_size = xs, !.cake_y_size = ys, !.cake_layers = ls]

SetCakeXYZ(r, x, y, z) == [r EXCEPT !.cake_x = x, !.cake_y = y, !.cake_z = z]

SetCakeElevatorTarget(r, ex, ey) == [r EXCEPT !.cake_elvx = ex, !.cake_elvy = ey]

SetCakePortXPlus(r, p) == [r EXCEPT !.cake_port_xp = p]

SetCakePortYPlus(r, p) == [r EXCEPT !.cake_port_yp = p]

SetCakePortZUp(r, p) == [r EXCEPT !.cake_port_zup = p]

SetCakePortZDown(r, p) == [r EXCEPT !.cake_port_zdn = p]

SetCakePortEject(r, p) == [r EXCEPT !.cake_port_eject = p]

\* The channel objects a router's port lists refer to.
Chan(c) == <<"chan", c>>

Inject(n) == <<"inject", n>>

Eject(n) == <<"eject", n>>

\* Channel::SetLatency on element c of a channel vector.
SetLatency(v, c, cycles) == [v EXCEPT ![c] = cycles]

----------------------------------------------------------------------------
\* The constructor starts

Init ==
  /\ topology \in {"cake", "unitorus"}
  /\ pc = "ComputeSize"
  /\ cfg = [dim_sizes |-> <<>>, elevator_coords |-> <<>>, elevatorcoords |-> <<>>,
            elevator_mapping_coords |-> <<>>, elevatormapping |-> <<>>,
            dim_bandwidth |-> <<>>, dim_latency |-> <<>>, dim_penalty |-> <<>>]
  /\ _x = 0 /\ _y = 0 /\ _layers = 0
  /\ _elevators = <<>> /\ _elevator_index = <<>> /\ _elevator_map = <<>>
  /\ _inplane_channels = 0 /\ _vertical_channels = 0
  /\ _dim_sizes = <<>> /\ _dim_bandwidth = <<>> /\ _dim_latency = <<>>
  /\ _dim_penalty = <<>>
  /\ _size = -1 /\ _nodes = -1 /\ _channels = -1
  /\ _routers = <<>> /\ _chan = <<>> /\ _chan_cred = <<>>
  /\ _inject = <<>> /\ _inject_cred = <<>> /\ _eject = <<>> /\ _eject_cred = <<>>
  /\ gK = 0 /\ gN = 0 /\ gDimSizes = <<>>
  /\ capacity = -1
  /\ cerr = ""
  /\ gRoutingFunctionMap = <<>> /\ registerCalls = 0

\* Network::_Alloc: the router vector and the channel vectors get their
\* sizes; no channel has a latency set by a builder yet (0).
Alloc ==
  /\ pc = "Alloc"
  /\ _routers' = [id \in 0..(_size - 1) |-> <<>>]
  /\ _chan' = [c \in 0..(_channels - 1) |-> 0]
  /\ _chan_cred' = [c \in 0..(_channels - 1) |-> 0]
  /\ _inject' = [n \in 0..(_nodes - 1) |-> 0]
  /\ _inject_cred' = [n \in 0..(_nodes - 1) |-> 0]
  /\ _eject' = [n \in 0..(_nodes - 1) |-> 0]
  /\ _eject_cred' = [n \in 0..(_nodes - 1) |-> 0]
  /\ pc' = "CreateRouters"
  /\ UNCHANGED <<topology, regVars, cfg, cakeVars, uniVars, sizeVars, capacity, cerr>>

----------------------------------------------------------------------------
\* Cake::_ComputeSize

CakeComputeSize ==
  /\ topology = "cake" /\ pc = "ComputeSize"
  /\ \E dim_sizes_str \in CakeDimSizesValues :
       LET toks == TrimmedTokens(dim_sizes_str)
           parsed == dim_sizes_str # <<>> /\ Len(toks) >= 2
           x == Atoi(toks[1])
           y == Atoi(toks[2])
           layers == IF Len(toks) >= 3 THEN Atoi(toks[3]) ELSE 1
       IN /\ cfg' = [cfg EXCEPT !.dim_sizes = dim_sizes_str]
          /\ IF ~parsed
             THEN /\ pc' = "exit"
                  /\ cerr' = IF dim_sizes_str = <<>>
                             THEN "Cake requires 'dim_sizes' to specify {x,y[,layers]}"
                             ELSE "dim_sizes must have at least 2 values (x,y)"
                  /\ UNCHANGED <<cakeVars, sizeVars>>
             ELSE /\ _x' = x /\ _y' = y /\ _layers' = layers
                  /\ IF x <= 0 \/ y <= 0 \/ layers <= 0
                     THEN /\ pc' = "exit"
                          /\ cerr' = "Invalid sizes for Cake"
                          /\ UNCHANGED <<_inplane_channels, _vertical_channels, sizeVars>>
                     ELSE /\ cerr' = cerr
                          /\ gK' = x /\ gN' = 2 /\ UNCHANGED gDimSizes
                          /\ _size' = x * y * layers
                          /\ _nodes' = x * y * layers
                          /\ _inplane_channels' = x * y * layers * 2
                          /\ _vertical_channels' = 0
                          /\ _channels' = -1
                          /\ pc' = "ParseElevators"
                  /\ UNCHANGED <<_elevators, _elevator_index, _elevator_map>>
  /\ UNCHANGED <<topology, regVars, uniVars, netVars, capacity>>

----------------------------------------------------------------------------
\* Cake::_ParseElevators.

CakeParseElevators ==
  /\ topology = "cake" /\ pc = "ParseElevators"
  /\ \E maps \in {[mc \in ElevatorMappingConfigs(_x, _y) |->
                       ParseElevatorMapping(MapStr(mc))]} :
     \E ec \in ElevatorCoordsConfigs :
     \E e \in {ParseElevatorCoords(ElevStr(ec))} :
          /\ _elevators' = e.elevators
          /\ _elevator_index' = e.index
          /\ IF e.err
             THEN /\ cfg' = [cfg EXCEPT !.elevator_coords = ec.elevator_coords,
                                        !.elevatorcoords = ec.elevatorcoords]
                  /\ pc' = "exit"
                  /\ cerr' = "elevator coord out of range"
                  /\ UNCHANGED <<_elevator_map, _vertical_channels, _channels>>
             ELSE \E mc \in DOMAIN maps :
                    LET m == maps[mc]
                        E == Len(e.elevators)
                    IN /\ cfg' = [cfg EXCEPT !.elevator_coords = ec.elevator_coords,
                                             !.elevatorcoords = ec.elevatorcoords,
                                             !.elevator_mapping_coords = mc.elevator_mapping_coords,
                                             !.elevatormapping = mc.elevatormapping]
                       /\ _elevator_map' = m.map
                       /\ IF m.err
                          THEN /\ pc' = "exit"
                               /\ cerr' = MappingMessage(MapStr(mc))
                               /\ UNCHANGED <<_vertical_channels, _channels>>
                          ELSE /\ cerr' = cerr
                               /\ _vertical_channels' = E * _layers * 2
                               /\ _channels' = _inplane_channels + E * _layers * 2
                               /\ pc' = "Alloc"
  /\ UNCHANGED <<topology, regVars, _x, _y, _layers, _inplane_channels, uniVars,
                 _size, _nodes, gK, gN, gDimSizes, netVars, capacity>>

----------------------------------------------------------------------------
\* Cake::_BuildNet. net = [routers, chan, chan_cred] is the part of the
\* network the wiring loops change.

\* CakeNewRouter with the elevator looked up under the key of (y,x).
CakeNewRouter_SwappedKey(id) ==
  LET c == IdToXYZ(id)
      is_elev == Key(c.y, c.x) \in DOMAIN _elevator_index
      net_ports == 2 + (IF is_elev THEN 2 ELSE 0)
      in_cnt == net_ports + 1
      out_cnt == net_ports + 1
      pref == _elevator_map[c.y][c.x]
  IN SetCakeElevatorTarget(
       SetCakeXYZ(SetCakeSizes(NewRouter(id, in_cnt, out_cnt), _x, _y, _layers),
                  c.x, c.y, c.z),
       pref[1], pref[2])

\* The body of the router-creation loop.
CakeNewRouter(id) ==
  LET c == IdToXYZ(id)
      is_elev == Key(c.x, c.y) \in DOMAIN _elevator_index
      net_ports == 2 + (IF is_elev THEN 2 ELSE 0)
      in_cnt == net_ports + 1
      out_cnt == net_ports + 1
      pref == _elevator_map[c.y][c.x]
  IN SetCakeElevatorTarget(
       SetCakeXYZ(SetCakeSizes(NewRouter(id, in_cnt, out_cnt), _x, _y, _layers),
                  c.x, c.y, c.z),
       pref[1], pref[2])

CakeCreateRouters ==
  /\ topology = "cake" /\ pc = "CreateRouters"
  /\ _routers' = [id \in 0..(_size - 1) |-> CakeNewRouter(id)]
  /\ pc' = "XPlus"
  /\ UNCHANGED <<topology, regVars, cfg, cakeVars, uniVars, sizeVars, capacity, cerr,
                 _chan, _chan_cred, _inject, _inject_cred, _eject, _eject_cred>>

\* XPlusLink with the port index read after the channel was added.
XPlusLink_IndexAfterAdd(net, x, y, z) ==
  LET from == NodeId(x, y, z)
      to == NodeId((x + 1) % _x, y, z)
      ch == InplaneChannel(from, 0)
      r0 == [net.routers EXCEPT ![from] = AddOutputChannel(@, Chan(ch))]
      out_idx == OutputIndexCount(r0[from])
      r1 == [r0 EXCEPT ![from] = SetCakePortXPlus(@, out_idx)]
      r2 == [r1 EXCEPT ![to] = AddInputChannel(@, Chan(ch))]
  IN [routers |-> r2,
      chan |-> SetLatency(net.chan, ch, 1),
      chan_cred |-> SetLatency(net.chan_cred, ch, 1)]

\* The body of the X+ loop at (x,y,z).
XPlusLink(net, x, y, z) ==
  LET from == NodeId(x, y, z)
      to == NodeId((x + 1) % _x, y, z)
      ch == InplaneChannel(from, 0)
      out_idx == OutputIndexCount(net.routers[from])
      r1 == [net.routers EXCEPT
               ![from] = SetCakePortXPlus(AddOutputChannel(@, Chan(ch)), out_idx)]
      r2 == [r1 EXCEPT ![to] = AddInputChannel(@, Chan(ch))]
  IN [routers |-> r2,
      chan |-> SetLatency(net.chan, ch, 1),
      chan_cred |-> SetLatency(net.chan_cred, ch, 1)]

\* The body of the Y+ loop at (x,y,z).
YPlusLink(net, x, y, z) ==
  LET from == NodeId(x, y, z)
      to == NodeId(x, (y + 1) % _y, z)
      ch == InplaneChannel(from, 1)
      out_idx == OutputIndexCount(net.routers[from])
      r1 == [net.routers EXCEPT
               ![from] = SetCakePortYPlus(AddOutputChannel(@, Chan(ch)), out_idx)]
      r2 == [r1 EXCEPT ![to] = AddInputChannel(@, Chan(ch))]
  IN [routers |-> r2,
      chan |-> SetLatency(net.chan, ch, 1),
      chan_cred |-> SetLatency(net.chan_cred, ch, 1)]

\* for z, for y, for x: iteration k visits x = k mod _x, y = (k div _x) mod
\* _y, z = k div (_x * _y).
RECURSIVE XPlusLoop(_, _)
XPlusLoop(net, k) ==
  IF k >= _layers * _y * _x THEN net
  ELSE XPlusLoop(XPlusLink(net, k % _x, (k \div _x) % _y, k \div (_x * _y)), k + 1)

RECURSIVE YPlusLoop(_, _)
YPlusLoop(net, k) ==
  IF k >= _layers * _y * _x THEN net
  ELSE YPlusLoop(YPlusLink(net, k % _x, (k \div _x) % _y, k \div (_x * _y)), k + 1)

\* VerticalLinks with the Z- link ending one layer up instead of one down.
VerticalLinks_DownLeadsUp(net, ei, z) ==
  LET ex == _elevators[ei + 1][1]
      ey == _elevators[ei + 1][2]
      from == NodeId(ex, ey, z)
      to_up == NodeId(ex, ey, (z + 1) % _layers)
      ch_u == UpChannel(ei, z)
      out_idx_u == OutputIndexCount(net.routers[from])
      r1 == [net.routers EXCEPT
               ![from] = SetCakePortZUp(AddOutputChannel(@, Chan(ch_u)), out_idx_u)]
      r2 == [r1 EXCEPT ![to_up] = AddInputChannel(@, Chan(ch_u))]
      to_dn == NodeId(ex, ey, (z + 1) % _layers)
      ch_d == DownChannel(ei, z)
      out_idx_d == OutputIndexCount(r2[from])
      r3 == [r2 EXCEPT
               ![from] = SetCakePortZDown(AddOutputChannel(@, Chan(ch_d)), out_idx_d)]
      r4 == [r3 EXCEPT ![to_dn] = AddInputChannel(@, Chan(ch_d))]
  IN [routers |-> r4,
      chan |-> SetLatency(SetLatency(net.chan, ch_u, 1), ch_d, 1),
      chan_cred |-> SetLatency(SetLatency(net.chan_cred, ch_u, 1), ch_d, 1)]

\* The body of the vertical loop for elevator ei at layer z.
VerticalLinks(net, ei, z) ==
  LET ex == _elevators[ei + 1][1]
      ey == _elevators[ei + 1][2]
      from == NodeId(ex, ey, z)
      to_up == NodeId(ex, ey, (z + 1) % _layers)
      ch_u == UpChannel(ei, z)
      out_idx_u == OutputIndexCount(net.routers[from])
      r1 == [net.routers EXCEPT
               ![from] = SetCakePortZUp(AddOutputChannel(@, Chan(ch_u)), out_idx_u)]
      r2 == [r1 EXCEPT ![to_up] = AddInputChannel(@, Chan(ch_u))]
      to_dn == NodeId(ex, ey, (z - 1 + _layers) % _layers)
      ch_d == DownChannel(ei, z)
      out_idx_d == OutputIndexCount(r2[from])
      r3 == [r2 EXCEPT
               ![from] = SetCakePortZDown(AddOutputChannel(@, Chan(ch_d)), out_idx_d)]
      r4 == [r3 EXCEPT ![to_dn] = AddInputChannel(@, Chan(ch_d))]
  IN [routers |-> r4,
      chan |-> SetLatency(SetLatency(net.chan, ch_u, 1), ch_d, 1),
      chan_cred |-> SetLatency(SetLatency(net.chan_cred, ch_u, 1), ch_d, 1)]

\* for ei, for z: iteration k visits ei = k div _layers, z = k mod _layers.
RECURSIVE VerticalLoop(_, _)
VerticalLoop(net, k) ==
  IF k >= Len(_elevators) * _layers THEN net
  ELSE VerticalLoop(VerticalLinks(net, k \div _layers, k % _layers), k + 1)

Net == [routers |-> _routers, chan |-> _chan, chan_cred |-> _chan_cred]

CakeConnectXPlus ==
  /\ topology = "cake" /\ pc = "XPlus"
  /\ LET net == XPlusLoop(Net, 0)
     IN /\ _routers' = net.routers
        /\ _chan' = net.chan
        /\ _chan_cred' = net.chan_cred
  /\ pc' = "YPlus"
  /\ UNCHANGED <<topology, regVars, cfg, cakeVars, uniVars, sizeVars, capacity, cerr,
                 _inject, _inject_cred, _eject, _eject_cred>>

CakeConnectYPlus ==
  /\ topology = "cake" /\ pc = "YPlus"
  /\ LET net == YPlusLoop(Net, 0)
     IN /\ _routers' = net.routers
        /\ _chan' = net.chan
        /\ _chan_cred' = net.chan_cred
  /\ pc' = "Vertical"
  /\ UNCHANGED <<topology, regVars, cfg, cakeVars, uniVars, sizeVars, capacity, cerr,
                 _inject, _inject_cred, _eject, _eject_cred>>

CakeConnectVertical ==
  /\ topology = "cake" /\ pc = "Vertical"
  /\ LET net == VerticalLoop(Net, 0)
     IN /\ _routers' = net.routers
        /\ _chan' = net.chan
        /\ _chan_cred' = net.chan_cred
  /\ pc' = "InjectEject"
  /\ UNCHANGED <<topology, regVars, cfg, cakeVars, uniVars, sizeVars, capacity, cerr,
                 _inject, _inject_cred, _eject, _eject_cred>>

\* The body of the injection/ejection loop, on the router.
CakeInjectEject(r, id) ==
  LET r1 == AddInputChannel(r, Inject(id))
      out_idx_ej == OutputIndexCount(r1)
  IN SetCakePortEject(AddOutputChannel(r1, Eject(id)), out_idx_ej)

CakeAddInjectEject ==
  /\ topology = "cake" /\ pc = "InjectEject"
  /\ _routers' = [id \in 0..(_size - 1) |-> CakeInjectEject(_routers[id], id)]
  /\ _inject' = [id \in 0..(_size - 1) |-> 1]
  /\ _inject_cred' = [id \in 0..(_size - 1) |-> 1]
  /\ _eject' = [id \in 0..(_size - 1) |-> 1]
  /\ _eject_cred' = [id \in 0..(_size - 1) |-> 1]
  /\ pc' = "done"
  /\ UNCHANGED <<topology, regVars, cfg, cakeVars, uniVars, sizeVars, capacity, cerr,
                 _chan, _chan_cred>>

----------------------------------------------------------------------------
\* UniTorus::_ComputeSize

\* dim_sizes of a UniTorus: unset, the string "0", or one to MaxD integers.
UniDimSizesValues ==
  {<<>>, <<"0">>} \cup
  {IntListStr(ds) : ds \in {d \in UNION {[1..n -> (-1)..MaxK] : n \in 1..MaxD} :
                              Buildable(d)}}

\* The sizes pushed by the loop over the tokens, which stops at the first
\* token whose value is not positive: [err, sizes].
RECURSIVE DimSizesLoop(_, _, _)
DimSizesLoop(tokens, i, sizes) ==
  IF i > Len(tokens) THEN [err |-> FALSE, sizes |-> sizes]
  ELSE IF Atoi(tokens[i]) <= 0 THEN [err |-> TRUE, sizes |-> sizes]
  ELSE DimSizesLoop(tokens, i + 1, Append(sizes, Atoi(tokens[i])))

UniComputeSize ==
  /\ topology = "unitorus" /\ pc = "ComputeSize"
  /\ \E dim_sizes_str \in UniDimSizesValues :
       LET p == DimSizesLoop(SplitComma(StripBraces(dim_sizes_str), 1), 1, <<>>)
       IN /\ cfg' = [cfg EXCEPT !.dim_sizes = dim_sizes_str]
          /\ IF dim_sizes_str = <<>> \/ dim_sizes_str = <<"0">>
             THEN /\ pc' = "exit"
                  /\ cerr' = "Error: dim_sizes must be specified as comma-separated values"
                  /\ UNCHANGED <<_dim_sizes, sizeVars>>
             ELSE /\ _dim_sizes' = p.sizes
                  /\ IF p.err
                     THEN /\ pc' = "exit"
                          /\ cerr' = "Error: All dimension sizes must be positive integers"
                          /\ UNCHANGED sizeVars
                     ELSE /\ cerr' = cerr
                          /\ _size' = Product(p.sizes, 1)
                          /\ gN' = Len(p.sizes)
                          /\ gK' = p.sizes[1]
                          /\ gDimSizes' = p.sizes
                          /\ _channels' = Len(p.sizes) * Product(p.sizes, 1)
                          /\ _nodes' = Product(p.sizes, 1)
                          /\ pc' = "ParseDirectionConfig"
  /\ UNCHANGED <<topology, regVars, cakeVars, _dim_bandwidth, _dim_latency, _dim_penalty,
                 netVars, capacity>>

----------------------------------------------------------------------------
\* UniTorus::_ParseDirectionConfig

\* ParseAndValidate with zero let through as a value.
ParseAndValidate_ZeroAllowed(param_str, num_dims) ==
  LET tokens == TrimmedTokens(param_str)
      values == [i \in 1..Len(tokens) |-> Atoi(tokens[i])]
  IN IF param_str = <<>> \/ param_str = <<"0">>
     THEN [err |-> FALSE, values |-> <<>>, msg |-> ""]
     ELSE IF Len(tokens) # num_dims
     THEN [err |-> TRUE, values |-> <<>>,
           msg |-> "Error: has N values but topology has D dimensions"]
     ELSE IF \E i \in 1..Len(tokens) : values[i] < 0
     THEN [err |-> TRUE, values |-> <<>>,
           msg |-> "Error: All values must be positive integers"]
     ELSE [err |-> FALSE, values |-> values, msg |-> ""]

\* The lambda parseAndValidate: [err, values, msg]; values is empty when the
\* defaults are to stay, msg is the message written before exit(-1).
ParseAndValidate(param_str, num_dims) ==
  LET tokens == TrimmedTokens(param_str)
      values == [i \in 1..Len(tokens) |-> Atoi(tokens[i])]
  IN IF param_str = <<>> \/ param_str = <<"0">>
     THEN [err |-> FALSE, values |-> <<>>, msg |-> ""]
     ELSE IF Len(tokens) # num_dims
     THEN [err |-> TRUE, values |-> <<>>,
           msg |-> "Error: has N values but topology has D dimensions"]
     ELSE IF \E i \in 1..Len(tokens) : values[i] <= 0
     THEN [err |-> TRUE, values |-> <<>>,
           msg |-> "Error: All values must be positive integers"]
     ELSE [err |-> FALSE, values |-> values, msg |-> ""]

\* The lambda parseAndValidatePenalty: as above, zero allowed.
ParseAndValidatePenalty(param_str, num_dims) ==
  LET tokens == TrimmedTokens(param_str)
      values == [i \in 1..Len(tokens) |-> Atoi(tokens[i])]
  IN IF param_str = <<>> \/ param_str = <<"0">>
     THEN [err |-> FALSE, values |-> <<>>, msg |-> ""]
     ELSE IF Len(tokens) # num_dims
     THEN [err |-> TRUE, values |-> <<>>,
           msg |-> "Error: has N values but topology has D dimensions"]
     ELSE IF \E i \in 1..Len(tokens) : values[i] < 0
     THEN [err |-> TRUE, values |-> <<>>,
           msg |-> "Error: All values must be non-negative integers"]
     ELSE [err |-> FALSE, values |-> values, msg |-> ""]

\* Values of a per-dimension list key of a topology with D dimensions: unset,
\* the string "0", D values (all equal to one of vals, or rising by one from
\* lo), or a list one value short or one value long.
DimListValues(D, vals, lo) ==
  {<<>>, <<"0">>} \cup
  {IntListStr([i \in 1..D |-> v]) : v \in vals} \cup
  {IntListStr([i \in 1..D |-> lo + i - 1])} \cup
  {IntListStr([i \in 1..n |-> 1]) : n \in {D - 1, D + 1}}

UniParseDirectionConfig ==
  /\ topology = "unitorus" /\ pc = "ParseDirectionConfig"
  /\ LET num_dims == Len(_dim_sizes)
         dflt(v) == [i \in 1..num_dims |-> v]
     IN \E bandwidth_str \in DimListValues(num_dims, {0, 2}, 1) :
          LET b == ParseAndValidate(bandwidth_str, num_dims)
          IN IF b.err
             THEN /\ cfg' = [cfg EXCEPT !.dim_bandwidth = bandwidth_str]
                  /\ _dim_bandwidth' = dflt(1) /\ _dim_latency' = dflt(1)
                  /\ _dim_penalty' = dflt(0)
                  /\ pc' = "exit"
                  /\ cerr' = b.msg
             ELSE \E latency_str \in DimListValues(num_dims, {0, 2}, 1) :
               LET l == ParseAndValidate(latency_str, num_dims)
               IN /\ _dim_bandwidth' = IF b.values # <<>> THEN b.values ELSE dflt(1)
                  /\ IF l.err
                     THEN /\ cfg' = [cfg EXCEPT !.dim_bandwidth = bandwidth_str,
                                                !.dim_latency = latency_str]
                          /\ _dim_latency' = dflt(1) /\ _dim_penalty' = dflt(0)
                          /\ pc' = "exit"
                          /\ cerr' = l.msg
                     ELSE \E penalty_str \in DimListValues(num_dims, {-1, 0}, 0) :
                       LET q == ParseAndValidatePenalty(penalty_str, num_dims)
                       IN /\ cfg' = [cfg EXCEPT !.dim_bandwidth = bandwidth_str,
                                                !.dim_latency = latency_str,
                                                !.dim_penalty = penalty_str]
                          /\ _dim_latency' = IF l.values # <<>> THEN l.values ELSE dflt(1)
                          /\ _dim_penalty' = IF ~q.err /\ q.values # <<>> THEN q.values
                                             ELSE dflt(0)
                          /\ pc' = IF q.err THEN "exit" ELSE "Alloc"
                          /\ cerr' = q.msg
  /\ UNCHANGED <<topology, regVars, cakeVars, _dim_sizes, sizeVars, netVars, capacity>>

----------------------------------------------------------------------------
\* Coordinate algebra of UniTorus: coords[dim + 1] is the coordinate in
\* dimension dim.

RECURSIVE NodeToCoordsLoop(_, _, _)
NodeToCoordsLoop(dim, temp, coords) ==
  IF dim >= Len(_dim_sizes) THEN coords
  ELSE NodeToCoordsLoop(dim + 1, temp \div _dim_sizes[dim + 1],
                        Append(coords, temp % _dim_sizes[dim + 1]))

NodeToCoords(node) == NodeToCoordsLoop(0, node, <<>>)

RECURSIVE CoordsToNodeLoop(_, _, _, _)
CoordsToNodeLoop(coords, dim, node, multiplier) ==
  IF dim >= Len(_dim_sizes) THEN node
  ELSE CoordsToNodeLoop(coords, dim + 1, node + coords[dim + 1] * multiplier,
                        multiplier * _dim_sizes[dim + 1])

CoordsToNode(coords) == CoordsToNodeLoop(coords, 0, 0, 1)

NextChannel(node, dim) == node * Len(_dim_sizes) + dim

\* NextNode stepping to the previous coordinate instead of the next.
NextNode_Backwards(node, dim) ==
  LET coords == NodeToCoords(node)
  IN CoordsToNode([coords EXCEPT ![dim + 1] =
                     (coords[dim + 1] - 1 + _dim_sizes[dim + 1]) % _dim_sizes[dim + 1]])

NextNode(node, dim) ==
  LET coords == NodeToCoords(node)
  IN CoordsToNode([coords EXCEPT ![dim + 1] = (coords[dim + 1] + 1) % _dim_sizes[dim + 1]])

----------------------------------------------------------------------------
\* UniTorus::_BuildNet

UniCreateRouters ==
  /\ topology = "unitorus" /\ pc = "CreateRouters"
  /\ _routers' = [node \in 0..(_size - 1) |->
                    NewRouter(node, Len(_dim_sizes) + 1, Len(_dim_sizes) + 1)]
  /\ pc' = "Connect"
  /\ UNCHANGED <<topology, regVars, cfg, cakeVars, uniVars, sizeVars, capacity, cerr,
                 _chan, _chan_cred, _inject, _inject_cred, _eject, _eject_cred>>

\* UniLink with the latency of dimension 0 on every channel.
UniLink_FirstDimLatency(net, node, dim) ==
  LET next_node == NextNode(node, dim)
      channel == NextChannel(node, dim)
      r1 == [net.routers EXCEPT ![node] = AddOutputChannel(@, Chan(channel))]
      r2 == [r1 EXCEPT ![next_node] = AddInputChannel(@, Chan(channel))]
  IN IF channel < 0 \/ channel >= _channels THEN [net EXCEPT !.err = TRUE]
     ELSE [err |-> FALSE, routers |-> r2,
           chan |-> SetLatency(net.chan, channel, _dim_latency[1]),
           chan_cred |-> SetLatency(net.chan_cred, channel, _dim_latency[1])]

\* The body of the connection loop for (node, dim); err where the code
\* rejects the channel index and exits.
UniLink(net, node, dim) ==
  LET next_node == NextNode(node, dim)
      channel == NextChannel(node, dim)
      r1 == [net.routers EXCEPT ![node] = AddOutputChannel(@, Chan(channel))]
      r2 == [r1 EXCEPT ![next_node] = AddInputChannel(@, Chan(channel))]
  IN IF channel < 0 \/ channel >= _channels THEN [net EXCEPT !.err = TRUE]
     ELSE [err |-> FALSE, routers |-> r2,
           chan |-> SetLatency(net.chan, channel, _dim_latency[dim + 1]),
           chan_cred |-> SetLatency(net.chan_cred, channel, _dim_latency[dim + 1])]

\* for node, for dim: iteration k visits node = k div D, dim = k mod D.
RECURSIVE UniLinkLoop(_, _)
UniLinkLoop(net, k) ==
  IF net.err \/ k >= _size * Len(_dim_sizes) THEN net
  ELSE UniLinkLoop(UniLink(net, k \div Len(_dim_sizes), k % Len(_dim_sizes)), k + 1)

UniConnect ==
  /\ topology = "unitorus" /\ pc = "Connect"
  /\ LET net == UniLinkLoop([err |-> FALSE, routers |-> _routers, chan |-> _chan,
                             chan_cred |-> _chan_cred], 0)
     IN /\ _routers' = net.routers
        /\ _chan' = net.chan
        /\ _chan_cred' = net.chan_cred
        /\ pc' = IF net.err THEN "exit" ELSE "InjectEject"
        /\ cerr' = IF net.err THEN "ERROR: Invalid channel index" ELSE cerr
  /\ UNCHANGED <<topology, regVars, cfg, cakeVars, uniVars, sizeVars, capacity,
                 _inject, _inject_cred, _eject, _eject_cred>>

UniAddInjectEject ==
  /\ topology = "unitorus" /\ pc = "InjectEject"
  /\ _routers' = [node \in 0..(_size - 1) |->
                    AddOutputChannel(AddInputChannel(_routers[node], Inject(node)),
                                     Eject(node))]
  /\ _inject' = [node \in 0..(_size - 1) |-> 1]
  /\ _inject_cred' = [node \in 0..(_size - 1) |-> 1]
  /\ _eject' = [node \in 0..(_size - 1) |-> 1]
  /\ _eject_cred' = [node \in 0..(_size - 1) |-> 1]
  /\ pc' = "done"
  /\ UNCHANGED <<topology, regVars, cfg, cakeVars, uniVars, sizeVars, capacity, cerr,
                 _chan, _chan_cred>>

----------------------------------------------------------------------------
\* UniTorus::Capacity

\* CapacityTerm without the division by the number of nodes.
CapacityTerm_NoDivide(dim) == _size * _dim_bandwidth[dim + 1]

\* One term of the sum: (double)(_size * bandwidth) / (double)_size. Both
\* operands are integers a double holds exactly and the quotient is an
\* integer, so the IEEE division returns it exactly.
CapacityTerm(dim) == (_size * _dim_bandwidth[dim + 1]) \div _size

RECURSIVE CapacityLoop(_, _)
CapacityLoop(dim, total_capacity) ==
  IF dim >= Len(_dim_sizes) THEN total_capacity
  ELSE CapacityLoop(dim + 1, total_capacity + CapacityTerm(dim))

Capacity == CapacityLoop(0, 0)

\* A caller asks the built network for its capacity.
UniCapacity ==
  /\ topology = "unitorus" /\ pc = "done"
  /\ capacity' = Capacity
  /\ pc' = "queried"
  /\ UNCHANGED <<topology, regVars, cfg, cakeVars, uniVars, sizeVars, netVars, cerr>>

UniNext ==
  \/ UniComputeSize
  \/ UniParseDirectionConfig
  \/ UniCreateRouters
  \/ UniConnect
  \/ UniAddInjectEject
  \/ UniCapacity

CakeNext ==
  \/ CakeComputeSize
  \/ CakeParseElevators
  \/ CakeCreateRouters
  \/ CakeConnectXPlus
  \/ CakeConnectYPlus
  \/ CakeConnectVertical
  \/ CakeAddInjectEject

Next == Alloc \/ CakeNext \/ UniNext

Spec == Init /\ [][Next]_vars

----------------------------------------------------------------------------
\* RegisterRoutingFunctions: the static function of the topology under
\* construction, called any number of times (up to MaxCalls) at any point.

UniRegisterRoutingFunctions ==
  /\ topology = "unitorus" /\ registerCalls < MaxCalls
  /\ gRoutingFunctionMap' =
       ("dim_order_unitorus_unitorus" :> "dim_order_unitorus") @@ gRoutingFunctionMap
  /\ registerCalls' = registerCalls + 1
  /\ UNCHANGED <<topology, pc, cfg, cakeVars, uniVars, sizeVars, netVars, capacity,
                 cerr>>

\* The body holds a comment only.
CakeRegisterRoutingFunctions ==
  /\ topology = "cake" /\ registerCalls < MaxCalls
  /\ registerCalls' = registerCalls + 1
  /\ UNCHANGED <<topology, pc, cfg, cakeVars, uniVars, sizeVars, netVars, capacity,
                 cerr, gRoutingFunctionMap>>

RegistryNext ==
  \/ Next
  \/ UniRegisterRoutingFunctions
  \/ CakeRegisterRoutingFunctions

RegistrySpec == Init /\ [][RegistryNext]_vars

----------------------------------------------------------------------------
\* Properties of the built networks

Range(seq) == {seq[i] : i \in 1..Len(seq)}

CakeBuilt == topology = "cake" /\ pc = "done"

UniBuilt == topology = "unitorus" /\ pc \in {"done", "queried"}

\* The routers whose recorded coordinates are (x,y,z).
RoutersAt(x, y, z) ==
  {id \in DOMAIN _routers : /\ _routers[id].cake_x = x
                            /\ _routers[id].cake_y = y
                            /\ _routers[id].cake_z = z}

\* Output port `port` of router R exists and carries a network channel that
\* is an input of the router at (x,y,z).
PortLeadsTo(R, port, x, y, z) ==
  /\ port \in 0..(Len(R.output_channels) - 1)
  /\ GetOutputChannel(R, port)[1] = "chan"
  /\ \E j \in RoutersAt(x, y, z) :
       GetOutputChannel(R, port) \in Range(_routers[j].input_channels)

IsElevator(x, y) == <<x, y>> \in Range(_elevators)

\* C1: after a Cake build, for every router R at (x,y,z), the output channel
\* at index R.xp is an input of router ((x+1) mod X, y, z), the one at R.yp
\* an input of (x, (y+1) mod Y, z), on an elevator the one at R.zup an input
\* of (x, y, (z+1) mod Z) and the one at R.zdn an input of
\* (x, y, (z-1+Z) mod Z), and the one at R.eject is R's own ejection channel.
C1_PortSlotCorrectness ==
  CakeBuilt =>
    \A id \in DOMAIN _routers :
      LET R == _routers[id]
          x == R.cake_x
          y == R.cake_y
          z == R.cake_z
      IN /\ PortLeadsTo(R, R.cake_port_xp, (x + 1) % _x, y, z)
         /\ PortLeadsTo(R, R.cake_port_yp, x, (y + 1) % _y, z)
         /\ IsElevator(x, y) =>
              /\ PortLeadsTo(R, R.cake_port_zup, x, y, (z + 1) % _layers)
              /\ PortLeadsTo(R, R.cake_port_zdn, x, y, (z - 1 + _layers) % _layers)
         /\ R.cake_port_eject \in 0..(Len(R.output_channels) - 1)
         /\ GetOutputChannel(R, R.cake_port_eject) = Eject(R.id)

\* A built 3 x 2 x 3 Cake with an elevator: every wrap-around occurs, and up
\* and down lead to different layers.
C1_Witness ==
  CakeBuilt /\ _x = 3 /\ _y = 2 /\ _layers = 3 /\ Len(_elevators) >= 1

\* C2: after a Cake build, a router on an elevator has xp=0, yp=1, zup=2,
\* zdn=3, eject=4, and every other router has xp=0, yp=1, eject=2 and
\* zup = zdn = -1.
C2_PortIndices ==
  CakeBuilt =>
    \A id \in DOMAIN _routers :
      LET R == _routers[id]
          ports == <<R.cake_port_xp, R.cake_port_yp, R.cake_port_zup,
                     R.cake_port_zdn, R.cake_port_eject>>
      IN IF IsElevator(R.cake_x, R.cake_y)
         THEN ports = <<0, 1, 2, 3, 4>>
         ELSE ports = <<0, 1, -1, -1, 2>>

\* A built Cake of three layers whose elevator_coords names (1,0) twice, with
\* routers on and off the elevator.
C2_Witness ==
  /\ CakeBuilt /\ _layers = 3
  /\ ElevStr(cfg) = ElevatorCoordsStr(<<<<1, 0>>, <<1, 0>>>>, " ")
  /\ \E id \in DOMAIN _routers : IsElevator(_routers[id].cake_x, _routers[id].cake_y)
  /\ \E id \in DOMAIN _routers : ~IsElevator(_routers[id].cake_x, _routers[id].cake_y)

\* The output (input) ports that carry a network channel, over all routers,
\* as <<router, index>> pairs.
NetworkOutputs ==
  UNION {{<<id, i>> : i \in {k \in 1..Len(_routers[id].output_channels) :
                               _routers[id].output_channels[k][1] = "chan"}} :
         id \in DOMAIN _routers}

NetworkInputs ==
  UNION {{<<id, i>> : i \in {k \in 1..Len(_routers[id].input_channels) :
                               _routers[id].input_channels[k][1] = "chan"}} :
         id \in DOMAIN _routers}

\* C3: after construction exactly `channels` network channels exist (D * size
\* in a UniTorus, 2*X*Y*Z + 2*|E|*Z in a Cake with |E| distinct elevators),
\* every channel id used in the wiring lies in [0, channels), and every id in
\* [0, channels) is an output of exactly one router and an input of exactly
\* one router: the output ports that carry a network channel number
\* `channels` and their ids are exactly the ids of [0, channels), so each id
\* is on exactly one output port; likewise for the input ports.
C3_ChannelCoverage ==
  (CakeBuilt \/ UniBuilt) =>
    /\ topology = "cake" =>
         _channels = 2 * _x * _y * _layers + 2 * Cardinality(Range(_elevators)) * _layers
    /\ topology = "unitorus" =>
         _channels = Len(_dim_sizes) * Product(_dim_sizes, 1)
    /\ DOMAIN _chan = 0..(_channels - 1)
    /\ DOMAIN _chan_cred = 0..(_channels - 1)
    /\ \A outs \in {NetworkOutputs} :
         /\ Cardinality(outs) = _channels
         /\ {_routers[p[1]].output_channels[p[2]][2] : p \in outs} = 0..(_channels - 1)
    /\ \A ins \in {NetworkInputs} :
         /\ Cardinality(ins) = _channels
         /\ {_routers[p[1]].input_channels[p[2]][2] : p \in ins} = 0..(_channels - 1)

\* A built Cake of three layers with two distinct elevators.
C3_Witness ==
  CakeBuilt /\ _layers = 3 /\ Cardinality(Range(_elevators)) = 2

\* C4: for every Cake router, the output channels and the input channels
\* registered by the end of _BuildNet each number what the router was
\* constructed with, net_ports + 1 with net_ports = 2 + 2*[is_elev].
C4_PortCardinality ==
  CakeBuilt =>
    \A id \in DOMAIN _routers :
      LET R == _routers[id]
          net_ports == 2 + (IF IsElevator(R.cake_x, R.cake_y) THEN 2 ELSE 0)
      IN /\ R.inputs = net_ports + 1
         /\ R.outputs = net_ports + 1
         /\ Len(R.input_channels) = R.inputs
         /\ Len(R.output_channels) = R.outputs

\* A built 3 x 2 Cake whose only elevator is (1,0), of three layers.
C4_Witness ==
  CakeBuilt /\ _x = 3 /\ _y = 2 /\ _layers = 3 /\ _elevators = <<<<1, 0>>>>

\* The coordinate of node n in dimension d of a UniTorus, by the mixed-radix
\* rule (least-significant dimension first).
MixedRadixCoord(n, d) == (n \div Product(SubSeq(_dim_sizes, 1, d), 1)) % _dim_sizes[d + 1]

\* The coordinate tuples of a UniTorus.
UniCoords ==
  {c \in [1..Len(_dim_sizes) -> 0..(MaxK - 1)] :
     \A i \in 1..Len(_dim_sizes) : c[i] < _dim_sizes[i]}

\* C5: the node-id/coordinate mappings are mutually inverse: in a UniTorus
\* _CoordsToNode(_NodeToCoords(n)) = n for every node n and
\* _NodeToCoords(_CoordsToNode(c)) = c for every coordinate tuple c (least-
\* significant dimension first); in a Cake _IdToXYZ inverts _NodeId, with
\* id = z*(X*Y) + y*X + x.
C5_Bijection ==
  /\ (topology = "unitorus" /\ _size > 0) =>
       /\ \A n \in 0..(_size - 1) :
            /\ CoordsToNode(NodeToCoords(n)) = n
            /\ \A d \in 0..(Len(_dim_sizes) - 1) :
                 NodeToCoords(n)[d + 1] = MixedRadixCoord(n, d)
       /\ \A c \in UniCoords :
            CoordsToNode(c) \in 0..(_size - 1) /\ NodeToCoords(CoordsToNode(c)) = c
  /\ (topology = "cake" /\ _size > 0) =>
       /\ \A x \in 0..(_x - 1), y \in 0..(_y - 1), z \in 0..(_layers - 1) :
            /\ NodeId(x, y, z) = z * (_x * _y) + y * _x + x
            /\ IdToXYZ(NodeId(x, y, z)) = [x |-> x, y |-> y, z |-> z]
       /\ \A id \in 0..(_size - 1) :
            NodeId(IdToXYZ(id).x, IdToXYZ(id).y, IdToXYZ(id).z) = id

\* A Cake of 3 x 2 x 3 nodes, sized.
C5_Witness ==
  topology = "cake" /\ _size = 18 /\ _x = 3 /\ _y = 2 /\ _layers = 3

\* The node of a UniTorus whose coordinates are those of n, except that the
\* coordinate in dimension d is one further, wrapping around.
PositiveNeighbour(n, d) ==
  CHOOSE m \in 0..(_size - 1) :
    \A e \in 0..(Len(_dim_sizes) - 1) :
      MixedRadixCoord(m, e) = IF e = d THEN (MixedRadixCoord(n, d) + 1) % _dim_sizes[d + 1]
                              ELSE MixedRadixCoord(n, e)

\* C6: after a UniTorus build with D dimensions, output port d of router n
\* is channel n*D + d, which is an input of the router one step further in
\* dimension d (wrapping around); output port D is the router's ejection
\* channel and its last input port, of index D, is its injection channel.
C6_UniPortOrder ==
  UniBuilt =>
    \A n \in DOMAIN _routers :
      LET R == _routers[n]
          D == Len(_dim_sizes)
      IN /\ Len(R.output_channels) = D + 1
         /\ Len(R.input_channels) = D + 1
         /\ \A d \in 0..(D - 1) :
              /\ GetOutputChannel(R, d) = Chan(n * D + d)
              /\ Chan(n * D + d) \in Range(_routers[PositiveNeighbour(n, d)].input_channels)
         /\ GetOutputChannel(R, D) = Eject(n)
         /\ GetInputChannel(R, D) = Inject(n)

\* A built 3 x 3 UniTorus.
C6_Witness == UniBuilt /\ _dim_sizes = <<3, 3>>

\* C7: in a UniTorus, once the channels are connected, channel n*D + d and
\* its credit channel have latency latency[d] (1 when dim_latency is unset)
\* and keep it through the rest of the build; after the build every
\* injection and ejection channel and their credit channels have latency 1.
C7_UniLatency ==
  /\ (topology = "unitorus" /\ pc \in {"InjectEject", "done", "queried"}) =>
       \A n \in 0..(_size - 1), d \in 0..(Len(_dim_sizes) - 1) :
         /\ _chan[n * Len(_dim_sizes) + d] = _dim_latency[d + 1]
         /\ _chan_cred[n * Len(_dim_sizes) + d] = _dim_latency[d + 1]
         /\ cfg.dim_latency = <<>> => _chan[n * Len(_dim_sizes) + d] = 1
  /\ UniBuilt =>
       \A n \in 0..(_size - 1) :
         _inject[n] = 1 /\ _inject_cred[n] = 1 /\ _eject[n] = 1 /\ _eject_cred[n] = 1

\* A built 3 x 2 UniTorus with dim_latency = {1,2}.
C7_Witness ==
  /\ UniBuilt /\ _dim_sizes = <<3, 2>>
  /\ cfg.dim_latency = IntListStr(<<1, 2>>) /\ _dim_latency = <<1, 2>>

RECURSIVE Sum(_, _)
Sum(values, i) == IF i > Len(values) THEN 0 ELSE values[i] + Sum(values, i + 1)

\* C8: UniTorus::Capacity() returns the sum over the dimensions of
\* bandwidth[d], whatever the dimension sizes: D when dim_bandwidth is unset.
C8_Capacity ==
  (topology = "unitorus" /\ pc = "queried") =>
    /\ capacity = Sum(_dim_bandwidth, 1)
    /\ cfg.dim_bandwidth = <<>> => capacity = Len(_dim_sizes)

\* The capacity of the 3 x 3 UniTorus with dim_bandwidth = {1,2} was asked
\* for, and is 3.
C8_Witness ==
  /\ topology = "unitorus" /\ pc = "queried"
  /\ _dim_sizes = <<3, 3>> /\ cfg.dim_bandwidth = IntListStr(<<1, 2>>)
  /\ capacity = 3

\* The pair is a coordinate of the grid.
InGrid(p) == p[1] \in 0..(_x - 1) /\ p[2] \in 0..(_y - 1)

\* The mapping string holds an integer that is no coordinate of the grid: an
\* x (odd position of the stream) outside [0,X) or a y outside [0,Y).
MappingNamesOutOfRange ==
  \E nums \in {MapNums(MapStr(cfg))} :
    \E i \in 1..Len(nums) :
      nums[i] < 0 \/ nums[i] >= (IF i % 2 = 1 THEN _x ELSE _y)

C10_PreferredElevator ==
  CakeBuilt =>
    \A nums \in {MapNums(MapStr(cfg))} :
      \A id \in DOMAIN _routers :
        LET R == _routers[id]
            x == R.cake_x
            y == R.cake_y
            pref == <<R.cake_elvx, R.cake_elvy>>
        IN /\ pref = _elevator_map[y][x]
           /\ IF cfg.elevator_mapping_coords = <<>> /\ cfg.elevatormapping = <<>>
              THEN pref = <<x, y>>
              ELSE pref = <<nums[2 * (y * _x + x) + 1], nums[2 * (y * _x + x) + 2]>>

\* A built 3 x 2 Cake of several layers with an explicit mapping that is not
\* the same pair everywhere.
C10_Witness ==
  /\ CakeBuilt /\ _x = 3 /\ _y = 2 /\ _layers >= 2
  /\ cfg.elevator_mapping_coords # <<>>
  /\ _elevator_map[0][0] # _elevator_map[1][2]
  /\ _elevator_map[0][1] # <<1, 0>>

\* The entries of dim_sizes as written in the configuration.
DimSizesEntries ==
  LET toks == SplitComma(StripBraces(cfg.dim_sizes), 1)
  IN [i \in 1..Len(toks) |-> Atoi(toks[i])]

\* Nothing of the network exists: no channel was allocated, no router was
\* created and none was wired.
NoNetwork ==
  /\ _routers = <<>>
  /\ _chan = <<>> /\ _chan_cred = <<>>
  /\ _inject = <<>> /\ _inject_cred = <<>> /\ _eject = <<>> /\ _eject_cred = <<>>

\* C11 as claimed: when dim_sizes holds an entry that is not positive, the
\* construction of either topology has aborted, and no channel was allocated
\* and no router created or wired.
C11_NonPositiveSizeAborts ==
  (cfg.dim_sizes # <<>> /\ \E i \in DOMAIN DimSizesEntries : DimSizesEntries[i] <= 0)
    => (pc = "exit" /\ NoNetwork)

\* The (x,y) pairs declared in elevator_coords, read off the flat integer
\* stream of the string.
DeclaredElevators ==
  LET nums == MapNums(ElevStr(cfg))
  IN [k \in 1..(Len(nums) \div 2) |-> <<nums[2 * k - 1], nums[2 * k]>>]

\* Some declared elevator lies outside the grid.
ElevatorDeclaredOutOfRange ==
  \E d \in {DeclaredElevators} : \E k \in DOMAIN d : ~InGrid(d[k])

\* Some target named in the mapping string lies outside the grid.
MappingTargetOutOfRange == MapStr(cfg) # <<>> /\ MappingNamesOutOfRange

ListEntries(str) ==
  LET toks == SplitComma(StripBraces(str), 1)
  IN [i \in 1..Len(toks) |-> Atoi(toks[i])]

\* The list has one entry per dimension, each at least lo.
ValidList(str, lo) ==
  \E e \in {ListEntries(str)} :
    Len(e) = Len(_dim_sizes) /\ \A i \in 1..Len(e) : e[i] >= lo

\* _ParseDirectionConfig has returned.
UniParsed ==
  topology = "unitorus"
    /\ pc \in {"Alloc", "CreateRouters", "Connect", "InjectEject", "done", "queried"}

Default(v) == [i \in 1..Len(_dim_sizes) |-> v]

\* C13 as claimed: in a UniTorus each of dim_bandwidth, dim_latency and
\* dim_penalty is either missing or empty, and the values are the defaults
\* 1, 1 and 0, or has exactly |dim_sizes| entries, positive for bandwidth and
\* latency and non-negative for penalty, and the values are the entries; any
\* other list aborts construction.
C13_DirectionLists ==
  topology = "unitorus" =>
    /\ (cfg.dim_bandwidth # <<>> /\ ~ValidList(cfg.dim_bandwidth, 1)) => pc = "exit"
    /\ (cfg.dim_latency # <<>> /\ ~ValidList(cfg.dim_latency, 1)) => pc = "exit"
    /\ (cfg.dim_penalty # <<>> /\ ~ValidList(cfg.dim_penalty, 0)) => pc = "exit"
    /\ UniParsed =>
         /\ _dim_bandwidth = IF cfg.dim_bandwidth = <<>> THEN Default(1)
                             ELSE ListEntries(cfg.dim_bandwidth)
         /\ _dim_latency = IF cfg.dim_latency = <<>> THEN Default(1)
                           ELSE ListEntries(cfg.dim_latency)
         /\ _dim_penalty = IF cfg.dim_penalty = <<>> THEN Default(0)
                           ELSE ListEntries(cfg.dim_penalty)

\* The key is missing, empty, or the bare string 0.
Omitted(str) == str = <<>> \/ str = <<"0">>

\* C13 as amended: each of the three keys is either missing, empty or the
\* bare string 0, and the values are the defaults 1, 1 and 0, or has exactly
\* |dim_sizes| entries, positive for bandwidth and latency and non-negative
\* for penalty, and the values are the entries; any other list aborts
\* construction.
C13_DirectionListsZeroOmitted ==
  topology = "unitorus" =>
    /\ (~Omitted(cfg.dim_bandwidth) /\ ~ValidList(cfg.dim_bandwidth, 1)) => pc = "exit"
    /\ (~Omitted(cfg.dim_latency) /\ ~ValidList(cfg.dim_latency, 1)) => pc = "exit"
    /\ (~Omitted(cfg.dim_penalty) /\ ~ValidList(cfg.dim_penalty, 0)) => pc = "exit"
    /\ UniParsed =>
         /\ _dim_bandwidth = IF Omitted(cfg.dim_bandwidth) THEN Default(1)
                             ELSE ListEntries(cfg.dim_bandwidth)
         /\ _dim_latency = IF Omitted(cfg.dim_latency) THEN Default(1)
                           ELSE ListEntries(cfg.dim_latency)
         /\ _dim_penalty = IF Omitted(cfg.dim_penalty) THEN Default(0)
                           ELSE ListEntries(cfg.dim_penalty)

\* A 3 x 2 UniTorus was built from dim_bandwidth = 0, which left the default
\* bandwidths, a latency list adopted as given and a penalty list of zeros.
C13_Witness ==
  /\ UniBuilt /\ _dim_sizes = <<3, 2>>
  /\ cfg.dim_bandwidth = <<"0">> /\ _dim_bandwidth = <<1, 1>>
  /\ cfg.dim_latency = IntListStr(<<1, 2>>) /\ _dim_latency = <<1, 2>>
  /\ cfg.dim_penalty = IntListStr(<<0, 0>>) /\ _dim_penalty = <<0, 0>>

\* C14 as claimed: a Cake accepts dim_sizes only when it has two or three
\* entries, all positive, which are X, Y and the number of layers (1 when
\* there are two entries); a list with fewer than two or more than three
\* entries aborts construction.
C14_CakeDimSizesCardinality ==
  (topology = "cake" /\ cfg.dim_sizes # <<>>) =>
    \A e \in {DimSizesEntries} :
      /\ Len(e) \notin {2, 3} => pc = "exit"
      /\ (\E i \in 1..Len(e) : e[i] <= 0) => pc = "exit"
      /\ pc # "exit" =>
           /\ _x = e[1] /\ _y = e[2]
           /\ _layers = IF Len(e) = 3 THEN e[3] ELSE 1

----------------------------------------------------------------------------
\* The dimension-ordered policy of a Cake routing function, which the source
\* leaves unwritten (Cake::RegisterRoutingFunctions registers nothing): the
\* output port a router picks for destination node d from its own metadata.

\* The hops of the layer change that lies ahead going up, and going down.
UpDistance(R, dz) == (dz - R.cake_z + R.cake_layers) % R.cake_layers

DownDistance(R, dz) == (R.cake_z - dz + R.cake_layers) % R.cake_layers

dor_cake(R, d) ==
  LET dx == d % R.cake_x_size
      dy == (d \div R.cake_x_size) % R.cake_y_size
      dz == d \div (R.cake_x_size * R.cake_y_size)
  IN IF dx = R.cake_x /\ dy = R.cake_y /\ dz = R.cake_z THEN R.cake_port_eject
     ELSE IF dz # R.cake_z
     THEN IF R.cake_x # R.cake_elvx THEN R.cake_port_xp
          ELSE IF R.cake_y # R.cake_elvy THEN R.cake_port_yp
          ELSE IF UpDistance(R, dz) <= DownDistance(R, dz) THEN R.cake_port_zup
          ELSE R.cake_port_zdn
     ELSE IF dx # R.cake_x THEN R.cake_port_xp
     ELSE R.cake_port_yp

\* The port is one of the router's output ports.
ValidPort(R, port) == port >= 0 /\ port < Len(R.output_channels)

\* Where each output port of each router leads: the router that has the
\* port's channel among its inputs, or -1 for an ejection channel.
Successors ==
  [id \in DOMAIN _routers |->
     [port \in 0..(Len(_routers[id].output_channels) - 1) |->
        LET ch == GetOutputChannel(_routers[id], port)
        IN IF ch[1] # "chan" THEN -1
           ELSE CHOOSE j \in DOMAIN _routers :
                  \E i \in 1..Len(_routers[j].input_channels) :
                    _routers[j].input_channels[i] = ch]]

\* A packet for node d that is at router id is delivered within `hops` more
\* hops: every router on its way picks a valid port, and the router of node
\* d ejects it through its eject port.
RECURSIVE Delivered(_, _, _, _)
Delivered(succ, id, d, hops) ==
  LET R == _routers[id]
      port == dor_cake(R, d)
  IN /\ ValidPort(R, port)
     /\ IF id = d
        THEN port = R.cake_port_eject /\ GetOutputChannel(R, port) = Eject(d)
        ELSE /\ hops > 0
             /\ succ[id][port] >= 0
             /\ Delivered(succ, succ[id][port], d, hops - 1)

\* C15 as claimed: on every built Cake, for every source router and every
\* destination node, applying the dimension-ordered policy at each router
\* always selects a recorded port that is >= 0, and the packet arrives at
\* the destination router and is ejected through its eject port. The policy
\* has no memory, so a packet that arrives does so before it has visited
\* more routers than there are.
C15_RoutingDelivers ==
  CakeBuilt =>
    \A succ \in {Successors} :
      \A src \in DOMAIN _routers, d \in 0..(_nodes - 1) :
        Delivered(succ, src, d, _size)

\* The channel dependencies of one route: the pairs <<c1, c2>> of network
\* channels that the packet for node d uses one right after the other, from
\* router id on, having come in over channel prev (<<>> at the source).
RECURSIVE RouteDependencies(_, _, _, _, _)
RouteDependencies(succ, id, d, prev, hops) ==
  LET R == _routers[id]
      port == dor_cake(R, d)
  IN IF ~ValidPort(R, port) \/ hops = 0 THEN {}
     ELSE LET ch == GetOutputChannel(R, port)
          IN IF succ[id][port] < 0 THEN {}
             ELSE (IF prev = <<>> THEN {} ELSE {<<prev, ch>>})
                    \cup RouteDependencies(succ, succ[id][port], d, ch, hops - 1)

\* The channel-dependency relation of the policy on the built network.
ChannelDependencies ==
  LET succ == Successors
  IN UNION {RouteDependencies(succ, src, d, <<>>, _size + 1) :
              src \in DOMAIN _routers, d \in 0..(_nodes - 1)}

\* No cycle in a relation over the given nodes: peeling off the nodes that
\* nothing depends on, again and again, leaves nothing.
RECURSIVE Acyclic(_, _)
Acyclic(nodes, deps) ==
  LET sources == {n \in nodes : \A e \in deps : ~(e[2] = n /\ e[1] \in nodes)}
  IN IF nodes = {} THEN TRUE
     ELSE IF sources = {} THEN FALSE
     ELSE Acyclic(nodes \ sources, deps)

\* C16 as claimed: on every built Cake the dimension-ordered policy is
\* deadlock-free, that is, the channel-dependency relation it induces has no
\* cycle.
C16_DeadlockFree ==
  CakeBuilt =>
    \A deps \in {ChannelDependencies} :
      Acyclic({e[1] : e \in deps} \cup {e[2] : e \in deps}, deps)

\* The name of the slot of R that holds the port.
PortName(R, port) ==
  IF port = R.cake_port_eject THEN "eject"
  ELSE IF port = R.cake_port_xp THEN "X+"
  ELSE IF port = R.cake_port_yp THEN "Y+"
  ELSE IF port = R.cake_port_zup THEN "Z+"
  ELSE IF port = R.cake_port_zdn THEN "Z-"
  ELSE "none"

\* The ports a packet for node d takes from router id on, by slot name, up to
\* its ejection (or up to the first port that is none, or `hops` hops).
RECURSIVE PortSequence(_, _, _, _)
PortSequence(succ, id, d, hops) ==
  LET R == _routers[id]
      port == dor_cake(R, d)
  IN IF ~ValidPort(R, port) THEN <<"none">>
     ELSE IF succ[id][port] < 0 \/ hops = 0 THEN <<PortName(R, port)>>
     ELSE <<PortName(R, port)>> \o PortSequence(succ, succ[id][port], d, hops - 1)

\* The network of the scenario: a built 2x2x3 Cake with elevators (0,0) and
\* (1,1) whose mapping sends (0,1), and (1,1) itself, to (1,1).
DiagonalCake ==
  /\ CakeBuilt /\ _x = 2 /\ _y = 2 /\ _layers = 3
  /\ Range(_elevators) = {<<0, 0>>, <<1, 1>>}
  /\ _elevator_map[1][0] = <<1, 1>>
  /\ _elevator_map[1][1] = <<1, 1>>

\* The packet of the scenario, from (0,1,0) to (0,0,2).
ScenarioRoute == PortSequence(Successors, NodeId(0, 1, 0), NodeId(0, 0, 2), _size)

\* C17 as claimed: in that network the packet from (0,1,0) to (0,0,2) takes
\* exactly the ports X+, Y+, Z+, Z+, X+, Y+ and then ejects.
C17_ScenarioPorts ==
  DiagonalCake => ScenarioRoute = <<"X+", "Y+", "Z+", "Z+", "X+", "Y+", "eject">>

\* C17 amended: the packet takes X+ to the elevator column (1,1), one Z- hop
\* from layer 0 round to layer 2 (the shorter way in a ring of three layers),
\* then X+ and Y+ in the destination layer, and then ejects.
C17_ScenarioPortsShorterWay ==
  DiagonalCake => ScenarioRoute = <<"X+", "Z-", "X+", "Y+", "eject">>

C17_Witness ==
  /\ DiagonalCake
  /\ Len(ScenarioRoute) = 5
  /\ ScenarioRoute[5] = "eject"

\* The name each topology registers its routing function under.
RegisteredName == IF topology = "unitorus" THEN "dim_order_unitorus_unitorus" ELSE "dor_cake"

\* A step that is one more call of RegisterRoutingFunctions after the first.
CalledAgain == registerCalls >= 1 /\ registerCalls' = registerCalls + 1

\* C18 as claimed: once the topology's RegisterRoutingFunctions has been
\* called, the registry contains the topology's entry
\* (dim_order_unitorus_unitorus for UniTorus, dor_cake for Cake), and calling
\* it again leaves the registry unchanged.
C18_RegistryHasEntry ==
  /\ [](registerCalls >= 1 => RegisteredName \in DOMAIN gRoutingFunctionMap)
  /\ [][CalledAgain => gRoutingFunctionMap' = gRoutingFunctionMap]_vars

\* The first occurrences of the distinct elements of seq, in order.
RECURSIVE FirstOccurrences(_, _, _)
FirstOccurrences(seq, i, acc) ==
  IF i > Len(seq) THEN acc
  ELSE FirstOccurrences(seq, i + 1,
                        IF seq[i] \in Range(acc) THEN acc ELSE Append(acc, seq[i]))

\* The network channels among the outputs of R that are vertical ones.
VerticalOutputs(R) ==
  {i \in 1..Len(R.output_channels) :
     /\ R.output_channels[i][1] = "chan"
     /\ R.output_channels[i][2] >= _inplane_channels}

\* C19 as claimed: after parsing a sequence of in-range elevator pairs, the
\* elevator list is the sequence of first occurrences of the distinct pairs
\* in declaration order, the index map sends each pair to its position in the
\* list (from 0), vertical_channels is 2 * |distinct pairs| * Z, and in the
\* built network every elevator router is the source of exactly one Z+ and
\* one Z- channel, held in its zup and zdn slots.
C19_ElevatorList ==
  (topology = "cake" /\ pc \notin {"ComputeSize", "ParseElevators"}) =>
    \A decl \in {DeclaredElevators} :
      (\A k \in DOMAIN decl : InGrid(decl[k])) =>
        \A first \in {FirstOccurrences(decl, 1, <<>>)} :
          /\ _elevators = first
          /\ DOMAIN _elevator_index = {Key(p[1], p[2]) : p \in Range(first)}
          /\ \A k \in DOMAIN first : _elevator_index[Key(first[k][1], first[k][2])] = k - 1
          /\ pc # "exit" => _vertical_channels = 2 * Len(first) * _layers
          /\ CakeBuilt =>
               \A id \in DOMAIN _routers :
                 LET R == _routers[id]
                 IN IF <<R.cake_x, R.cake_y>> \in Range(first)
                    THEN /\ Cardinality(VerticalOutputs(R)) = 2
                         /\ VerticalOutputs(R) = {R.cake_port_zup + 1, R.cake_port_zdn + 1}
                    ELSE VerticalOutputs(R) = {}

\* C20: in a built Cake with one layer, every elevator router has zup = 2 and
\* zdn = 3, the channels at these two ports are distinct network channels,
\* each of them is also an input of the same router (a self-loop), and the
\* router has exactly 5 inputs and 5 outputs; with two layers the channels at
\* zup and zdn of (ex,ey,z) are distinct and both are inputs of (ex,ey,1-z).
C20_ShortColumns ==
  (CakeBuilt /\ _layers \in {1, 2}) =>
    \A id \in DOMAIN _routers :
      LET R == _routers[id]
      IN IsElevator(R.cake_x, R.cake_y) =>
           /\ ValidPort(R, R.cake_port_zup) /\ ValidPort(R, R.cake_port_zdn)
           /\ GetOutputChannel(R, R.cake_port_zup) # GetOutputChannel(R, R.cake_port_zdn)
           /\ IF _layers = 1
              THEN /\ R.cake_port_zup = 2 /\ R.cake_port_zdn = 3
                   /\ PortLeadsTo(R, 2, R.cake_x, R.cake_y, 0)
                   /\ PortLeadsTo(R, 3, R.cake_x, R.cake_y, 0)
                   /\ GetOutputChannel(R, 2) \in Range(R.input_channels)
                   /\ GetOutputChannel(R, 3) \in Range(R.input_channels)
                   /\ Len(R.input_channels) = 5 /\ Len(R.output_channels) = 5
              ELSE /\ PortLeadsTo(R, R.cake_port_zup, R.cake_x, R.cake_y, 1 - R.cake_z)
                   /\ PortLeadsTo(R, R.cake_port_zdn, R.cake_x, R.cake_y, 1 - R.cake_z)

\* A built one-layer Cake with two elevator columns.
C20_Witness ==
  /\ CakeBuilt /\ _layers = 1 /\ Len(_elevators) = 2
  /\ \E id \in DOMAIN _routers :
       /\ IsElevator(_routers[id].cake_x, _routers[id].cake_y)
       /\ _routers[id].cake_port_zdn = 3

\* A built two-layer Cake with an elevator column, the other case of C20.
TwoLayerColumn == CakeBuilt /\ _layers = 2 /\ Len(_elevators) >= 1

\* "{a, b}": a pair written with a blank after its comma.
SpacedPairStr(p) == <<"{">> \o Itoa(p[1]) \o <<",", " ">> \o Itoa(p[2]) \o <<"}">>

RECURSIVE JoinSpacedPairs(_, _)
JoinSpacedPairs(pairs, i) ==
  IF i > Len(pairs) THEN <<>>
  ELSE (IF i > 1 THEN <<" ">> ELSE <<>>) \o SpacedPairStr(pairs[i])
       \o JoinSpacedPairs(pairs, i + 1)

\* Ways of writing the same pairs: comma-separated, blank-separated, with a
\* blank after the comma inside each pair, and blank-separated with a comma
\* after the last pair.
Spellings(pairs) ==
  {ElevatorCoordsStr(pairs, ","),
   ElevatorCoordsStr(pairs, " "),
   <<"{">> \o JoinSpacedPairs(pairs, 1) \o <<"}">>,
   <<"{">> \o JoinPairs(pairs, 1, " ") \o <<",", "}">>}

\* C21 as claimed: the elevator list depends only on the flat integer stream
\* of elevator_coords (braces and white space separate, commas separate the
\* fields): once a string naming in-range pairs has been parsed, every string
\* with the same integer stream yields the same elevator list, and the list holds the consecutive (x,y)
\* pairs of the stream.
C21_StreamDeterminesElevators ==
  (topology = "cake" /\ pc \notin {"ComputeSize", "ParseElevators"}) =>
    \A decl \in {DeclaredElevators} :
      (decl # <<>> /\ \A k \in DOMAIN decl : InGrid(decl[k])) =>
        /\ Range(_elevators) = Range(decl)
        /\ \A v \in Spellings(decl) :
             MapNums(v) = MapNums(ElevStr(cfg)) =>
               \A e \in {ParseElevatorCoords(v)} :
                 ~e.err /\ e.elevators = _elevators

====
